---- MODULE Spec2Model ----
(***************************************************************************)
(* Model of the job preemption DAO of LinkMe                               *)
(* (internal/repository/dao/sql_job.go): the jobs table, and workers that  *)
(* call Preempt, UpdateTime, UpdateNextTime and Release on it.             *)
(*                                                                         *)
(* Every DAO method other than Preempt is one SQL statement and is one     *)
(* atomic step.  Preempt is a loop of two statements (a SELECT and a       *)
(* conditional UPDATE); a worker may be interleaved between the two, so    *)
(* they are two steps.  Store failures (a non-nil result.Error other than  *)
(* record-not-found) are not modelled.  Of a Job row only the fields the   *)
(* DAO reads or writes are kept: Id, Status, Version, NextTime,            *)
(* UpdatedTime; of the Job that Preempt reads into j and returns, the      *)
(* fields it uses afterwards or that say what was claimed: Id, Status,     *)
(* Version.                                                                *)
(*                                                                         *)
(* Also the Like method of the interactive service (service package): a    *)
(* read of the repository (Liked) followed by a write chosen by what was   *)
(* read (DecrLike or IncrLike), two steps.  The repository itself is       *)
(* modelled from its interface: whether the user likes the item, and the   *)
(* count the user's likes add to it.                                       *)
(***************************************************************************)
EXTENDS Integers, FiniteSets, Sequences, TLC

\* ---------------------------------------------------------------- bounds
\* workers, rows of the jobs table
NumWorkers == 2
NumJobs == 2
\* the clock starts at 1 and stops at MaxTime
MaxTime == 2
\* successful claims after which no new Preempt iteration starts
MaxClaims == 2
\* the highest version a row has in the initial store of SpecPreempt
MaxInitVersion == 1
\* the retry bound that C5 speaks of
MaxAttempts == 2
\* users that like the one item; Like calls each of them makes
NumUsers == 2
MaxLikes == 2

Workers == 1..NumWorkers
JobIds == 1..NumJobs
Times == 0..MaxTime
Users == 1..NumUsers

\* ------------------------------------------------------ program constants
jobStatusWaiting == 0
jobStatusRunning == 1
jobStatusPaused == 2

\* the value of `var j Job` before First fills it
ZeroJob == [Id |-> 0, Status |-> 0, Version |-> 0]
\* the Job that First fills from a row
Scan(row) == [Id |-> row.Id, Status |-> row.Status, Version |-> row.Version]

NoRet == [err |-> "none", job |-> ZeroJob]

VARIABLES
    clock,   \* time.Now().UnixMilli()
    jobs,    \* the jobs table: id -> row
    start,   \* the table as it was initially (never changes)
    pc,      \* where each worker is: "idle", "read", "update", "claimed",
             \* "rescheduled", "released"
    alive,   \* FALSE once the worker's process has crashed
    j,       \* Preempt's local j (and, after it returned, the job the worker holds)
    now,     \* Preempt's local now
    ret,     \* what the worker's last Preempt call returned: (Job, error)
    fails,   \* conditional updates that affected 0 rows in the current Preempt call
    counting, \* whether this behaviour keeps the count in fails (never changes)
    like     \* the interactive service and its repository, a record:
             \*   userLike[u]   the repository: whether user u likes the item (biz, id)
             \*   likeCnt[u]    the repository: what u's likes add to the item's count
             \*   likeStart[u]  userLike as it was initially (never changes)
             \*   lpc[w]        where the Like call is: "idle" (none), "branch" (after Liked)
             \*   uid[w]        Like's argument uid (0: no call)
             \*   liked[w]      Like's local liked
             \*   likeCalls[u]  the Like calls of user u that have returned

\* the state of the job DAO and its workers, and of the interactive service
jobVars == <<clock, jobs, start, pc, alive, j, now, ret, fails, counting>>
vars == <<clock, jobs, start, pc, alive, j, now, ret, fails, counting, like>>

\* ----------------------------------------------------------- the store
\* WHERE status = ? AND next_time < ?  (jobStatusWaiting, now)
PreemptMatchAnyStatus(row, t) == row.NextTime < t
PreemptMatchAtOrBefore(row, t) == row.Status = jobStatusWaiting /\ row.NextTime <= t
PreemptMatch(row, t) == row.Status = jobStatusWaiting /\ row.NextTime < t

\* First(&j): the matching row with the smallest primary key, or none
Candidates(t) == {id \in JobIds : PreemptMatch(jobs[id], t)}
First(S) == CHOOSE id \in S : \A o \in S : id <= o

\* WHERE id = ? AND version = ?  (j.Id, j.Version)
PreemptWhereAnyVersion(row, cand) == row.Id = cand.Id
PreemptWhere(row, cand) == row.Id = cand.Id /\ row.Version = cand.Version

\* Updates{status: jobStatusRunning, version: j.Version + 1, updated_at: now}
PreemptSetKeepVersion(row, cand, t) ==
    [row EXCEPT !.Status = jobStatusRunning, !.UpdatedTime = t]
PreemptSet(row, cand, t) ==
    [row EXCEPT !.Status = jobStatusRunning, !.Version = cand.Version + 1,
                !.UpdatedTime = t]

\* Release: Updates{status: jobStatusWaiting, updated_at: now} WHERE id = ?
ReleaseSetBumpVersion(row, t) ==
    [row EXCEPT !.Status = jobStatusWaiting, !.UpdatedTime = t, !.Version = @ + 1]
ReleaseSet(row, t) == [row EXCEPT !.Status = jobStatusWaiting, !.UpdatedTime = t]

\* UpdateTime: Updates{updated_at: now} WHERE id = ?
UpdateTimeSetAlsoNext(row, t) == [row EXCEPT !.UpdatedTime = t, !.NextTime = t]
UpdateTimeSet(row, t) == [row EXCEPT !.UpdatedTime = t]

\* UpdateNextTime: Updates{updated_at: now, next_time: t.UnixMilli()} WHERE id = ?
UpdateNextTimeSet(row, t, next) == [row EXCEPT !.UpdatedTime = t, !.NextTime = next]

\* the workers that hold job id: Preempt returned it to them and they have not
\* yet released it
Owners(id) ==
    {w \in Workers : alive[w] /\ pc[w] \in {"claimed", "rescheduled"} /\ j[w].Id = id}

\* the successful claims so far: every one of them adds 1 to a row's version.
\* No new Preempt iteration starts once MaxClaims of them have happened.
RECURSIVE Claims(_)
Claims(S) ==
    IF S = {} THEN 0
    ELSE LET id == CHOOSE x \in S : TRUE
         IN  (jobs[id].Version - start[id].Version) + Claims(S \ {id})

\* -------------------------------------------------------------- Preempt
\* lines 55-61: a new iteration of the loop; the call starts when pc = "idle"
PreemptRead(w) ==
    /\ alive[w]
    /\ pc[w] \in {"idle", "read", "released"}
    /\ Claims(JobIds) < MaxClaims
    /\ IF Candidates(clock) = {}
       THEN \* gorm.ErrRecordNotFound: return j, err
            /\ j' = [j EXCEPT ![w] = ZeroJob]
            /\ ret' = [ret EXCEPT ![w] = [err |-> "NotFound", job |-> ZeroJob]]
            /\ pc' = [pc EXCEPT ![w] = "idle"]
            /\ now' = [now EXCEPT ![w] = 0]
            /\ fails' = [fails EXCEPT ![w] = 0]
       ELSE /\ j' = [j EXCEPT ![w] = Scan(jobs[First(Candidates(clock))])]
            /\ ret' = [ret EXCEPT ![w] = NoRet]
            /\ pc' = [pc EXCEPT ![w] = "update"]
            /\ now' = [now EXCEPT ![w] = clock]
            /\ UNCHANGED fails
    /\ UNCHANGED <<clock, jobs, start, alive, counting, like>>

\* lines 63-75: the conditional update and what follows it
PreemptUpdate(w) ==
    /\ alive[w]
    /\ pc[w] = "update"
    /\ LET id == j[w].Id
           hit == PreemptWhere(jobs[id], j[w])
       IN  IF hit
           THEN \* RowsAffected = 1: return j, nil
                /\ jobs' = [jobs EXCEPT ![id] = PreemptSet(@, j[w], now[w])]
                /\ ret' = [ret EXCEPT ![w] = [err |-> "nil", job |-> j[w]]]
                /\ pc' = [pc EXCEPT ![w] = "claimed"]
                /\ now' = [now EXCEPT ![w] = 0]
                /\ fails' = [fails EXCEPT ![w] = 0]
                /\ UNCHANGED j
           ELSE \* RowsAffected = 0: continue (j and now are the iteration's own)
                /\ fails' = [fails EXCEPT ![w] = IF counting THEN @ + 1 ELSE @]
                /\ pc' = [pc EXCEPT ![w] = "read"]
                /\ now' = [now EXCEPT ![w] = 0]
                /\ j' = [j EXCEPT ![w] = ZeroJob]
                /\ UNCHANGED <<jobs, ret>>
    /\ UNCHANGED <<clock, start, alive, counting, like>>

\* ------------------------------------------- the other three DAO methods
DoUpdateTime(id) ==
    jobs' = [jobs EXCEPT ![id] = UpdateTimeSet(@, clock)]

DoUpdateNextTime(id, t) ==
    jobs' = [jobs EXCEPT ![id] = UpdateNextTimeSet(@, clock, t)]

DoRelease(id) ==
    jobs' = [jobs EXCEPT ![id] = ReleaseSet(@, clock)]

\* ------------------------------------------------ a worker's normal cycle
\* the heartbeat of the worker that holds the job
Heartbeat(w) ==
    /\ alive[w]
    /\ pc[w] = "claimed"
    /\ DoUpdateTime(j[w].Id)
    /\ UNCHANGED <<clock, start, pc, alive, j, now, ret, fails, counting, like>>

\* the run is over: the worker records the next due time
Reschedule(w) ==
    /\ alive[w]
    /\ pc[w] = "claimed"
    /\ \E t \in Times : DoUpdateNextTime(j[w].Id, t)
    /\ pc' = [pc EXCEPT ![w] = "rescheduled"]
    /\ UNCHANGED <<clock, start, alive, j, now, ret, fails, counting, like>>

\* and gives the job back
Release(w) ==
    /\ alive[w]
    /\ pc[w] = "rescheduled"
    /\ DoRelease(j[w].Id)
    /\ pc' = [pc EXCEPT ![w] = "idle"]
    /\ j' = [j EXCEPT ![w] = ZeroJob]
    /\ ret' = [ret EXCEPT ![w] = NoRet]
    /\ UNCHANGED <<clock, start, alive, now, fails, counting, like>>

\* ------------------------------------- calls that arrive after the release
\* Release, by a worker whose heartbeat ticker or whose retried Release call is
\* still to come: it keeps the id of the job it has given back
ReleaseKeep(w) ==
    /\ alive[w]
    /\ pc[w] = "rescheduled"
    /\ DoRelease(j[w].Id)
    /\ pc' = [pc EXCEPT ![w] = "released"]
    /\ ret' = [ret EXCEPT ![w] = NoRet]
    /\ UNCHANGED <<clock, start, alive, j, now, fails, counting, like>>

\* a second Release(ctx, jobId) for the job the worker no longer holds
LateRelease(w) ==
    /\ alive[w]
    /\ pc[w] = "released"
    /\ DoRelease(j[w].Id)
    /\ pc' = [pc EXCEPT ![w] = "idle"]
    /\ j' = [j EXCEPT ![w] = ZeroJob]
    /\ UNCHANGED <<clock, start, alive, now, ret, fails, counting, like>>

\* an UpdateTime(ctx, id) for the job the worker no longer holds
LateHeartbeat(w) ==
    /\ alive[w]
    /\ pc[w] = "released"
    /\ DoUpdateTime(j[w].Id)
    /\ UNCHANGED <<clock, start, pc, alive, j, now, ret, fails, counting, like>>

\* ------------------------------------------------------ the environment
\* the worker's process dies, wherever it is
Crash(w) ==
    /\ alive[w]
    /\ alive' = [alive EXCEPT ![w] = FALSE]
    /\ UNCHANGED <<clock, jobs, start, pc, j, now, ret, fails, counting, like>>

\* the administrative pause: sets status = Paused only if currently Waiting
PauseSet(row) == [row EXCEPT !.Status = jobStatusPaused]
Pause(id) ==
    /\ jobs[id].Status = jobStatusWaiting
    /\ jobs' = [jobs EXCEPT ![id] = PauseSet(@)]
    /\ UNCHANGED <<clock, start, pc, alive, j, now, ret, fails, counting, like>>

\* the administrative resume: sets status = Waiting only if currently Paused
ResumeSet(row) == [row EXCEPT !.Status = jobStatusWaiting]
Resume(id) ==
    /\ jobs[id].Status = jobStatusPaused
    /\ jobs' = [jobs EXCEPT ![id] = ResumeSet(@)]
    /\ UNCHANGED <<clock, start, pc, alive, j, now, ret, fails, counting, like>>

Tick ==
    /\ clock < MaxTime
    /\ clock' = clock + 1
    /\ UNCHANGED <<jobs, start, pc, alive, j, now, ret, fails, counting, like>>

\* ------------------------------------------------------------------ Like
\* the like count a user adds when they like the item or not
CntOf(b) == IF b THEN 1 ELSE 0

\* the Like calls of user u between their read and their write
InFlight(u) == {w \in Workers : like.lpc[w] = "branch" /\ like.uid[w] = u}

\* repo.IncrLike, repo.DecrLike: the user's like is recorded or removed and the
\* count goes up or down by one
IncrLike(l, u) == [l EXCEPT !.userLike[u] = TRUE, !.likeCnt[u] = @ + 1]

DecrLike(l, u) == [l EXCEPT !.userLike[u] = FALSE, !.likeCnt[u] = @ - 1]

\* line 34: liked, _ := i.repo.Liked(ctx, biz, id, uid)
LikeRead(w, u) ==
    /\ like.lpc[w] = "idle"
    /\ like.likeCalls[u] + Cardinality(InFlight(u)) < MaxLikes
    /\ like' = [like EXCEPT !.liked[w] = like.userLike[u],
                            !.uid[w] = u,
                            !.lpc[w] = "branch"]
    /\ UNCHANGED jobVars

\* lines 36-39: if liked { return DecrLike } return IncrLike
LikeWrite(w) ==
    /\ like.lpc[w] = "branch"
    /\ LET u == like.uid[w]
           l == IF like.liked[w] THEN DecrLike(like, u) ELSE IncrLike(like, u)
       IN  like' = [l EXCEPT !.likeCalls[u] = @ + 1,
                             !.lpc[w] = "idle",
                             !.uid[w] = 0,
                             !.liked[w] = FALSE]
    /\ UNCHANGED jobVars

\* ------------------------------------------------------------ the system
\* no Like call has started; the users of S like the item
InitCalls(S) ==
    like = [userLike |-> [u \in Users |-> u \in S],
            likeCnt |-> [u \in Users |-> CntOf(u \in S)],
            likeStart |-> [u \in Users |-> u \in S],
            lpc |-> [w \in Workers |-> "idle"],
            uid |-> [w \in Workers |-> 0],
            liked |-> [w \in Workers |-> FALSE],
            likeCalls |-> [u \in Users |-> 0]]

\* nobody likes the item
InitNoLikes == InitCalls({})

InitWorkers ==
    /\ pc = [w \in Workers |-> "idle"]
    /\ alive = [w \in Workers |-> TRUE]
    /\ j = [w \in Workers |-> ZeroJob]
    /\ now = [w \in Workers |-> 0]
    /\ ret = [w \in Workers |-> NoRet]
    /\ fails = [w \in Workers |-> 0]

\* every job Waiting and due (its next_time 0 is in the past), at version 0
InitStore ==
    /\ clock = 1
    /\ jobs = [id \in JobIds |->
                 [Id |-> id, Status |-> jobStatusWaiting, Version |-> 0,
                  NextTime |-> 0, UpdatedTime |-> 0]]
    /\ start = jobs

Init == InitStore /\ InitWorkers /\ counting = FALSE /\ InitNoLikes

\* workers running Preempt -> UpdateTime* -> UpdateNextTime -> Release
Next ==
    \/ \E w \in Workers : PreemptRead(w)
    \/ \E w \in Workers : PreemptUpdate(w)
    \/ \E w \in Workers : Heartbeat(w)
    \/ \E w \in Workers : Reschedule(w)
    \/ \E w \in Workers : Release(w)
    \/ Tick

Spec == Init /\ [][Next]_vars

\* the same, with the failed conditional updates of each Preempt call counted
InitRetry == InitStore /\ InitWorkers /\ counting = TRUE /\ InitNoLikes

SpecRetry == InitRetry /\ [][Next]_vars

\* one job Waiting and due, at any version; the others Running or Paused
InitPreempt ==
    /\ clock \in 1..MaxTime
    /\ \E d \in JobIds :
         jobs \in {f \in [JobIds -> [Id : JobIds,
                                     Status : {jobStatusWaiting, jobStatusRunning,
                                               jobStatusPaused},
                                     Version : 0..MaxInitVersion,
                                     NextTime : {0}, UpdatedTime : {0}]] :
                     /\ \A id \in JobIds : f[id].Id = id
                     /\ f[d].Status = jobStatusWaiting
                     /\ \A id \in JobIds \ {d} : f[id].Status # jobStatusWaiting}
    /\ start = jobs
    /\ InitWorkers
    /\ counting = FALSE
    /\ InitNoLikes

\* workers that only call Preempt
NextPreempt ==
    \/ \E w \in Workers : PreemptRead(w)
    \/ \E w \in Workers : PreemptUpdate(w)
    \/ Tick

SpecPreempt == InitPreempt /\ [][NextPreempt]_vars

\* the cycle, with calls that arrive after the worker has released its job
NextLate ==
    \/ \E w \in Workers : PreemptRead(w)
    \/ \E w \in Workers : PreemptUpdate(w)
    \/ \E w \in Workers : Heartbeat(w)
    \/ \E w \in Workers : Reschedule(w)
    \/ \E w \in Workers : ReleaseKeep(w)
    \/ \E w \in Workers : LateRelease(w)
    \/ \E w \in Workers : LateHeartbeat(w)
    \/ Tick

SpecLate == Init /\ [][NextLate]_vars

\* the cycle, with the administrative pause and resume
NextAdmin ==
    \/ \E w \in Workers : PreemptRead(w)
    \/ \E w \in Workers : PreemptUpdate(w)
    \/ \E w \in Workers : Heartbeat(w)
    \/ \E w \in Workers : Reschedule(w)
    \/ \E w \in Workers : Release(w)
    \/ \E id \in JobIds : Pause(id)
    \/ \E id \in JobIds : Resume(id)
    \/ Tick

SpecAdmin == Init /\ [][NextAdmin]_vars

\* the cycle, with workers that may crash.  A worker that is alive keeps taking
\* its steps; the clock runs.
NextCrash ==
    \/ \E w \in Workers : PreemptRead(w)
    \/ \E w \in Workers : PreemptUpdate(w)
    \/ \E w \in Workers : Heartbeat(w)
    \/ \E w \in Workers : Reschedule(w)
    \/ \E w \in Workers : Release(w)
    \/ \E w \in Workers : Crash(w)
    \/ Tick

Fairness ==
    /\ \A w \in Workers : WF_vars(PreemptRead(w))
    /\ \A w \in Workers : WF_vars(PreemptUpdate(w))
    /\ \A w \in Workers : WF_vars(Reschedule(w))
    /\ \A w \in Workers : WF_vars(Release(w))
    /\ WF_vars(Tick)

SpecCrash == Init /\ [][NextCrash]_vars /\ Fairness

\* requests that call Like, each for any user, who likes the item or not
InitLike ==
    /\ InitStore /\ InitWorkers /\ counting = FALSE
    /\ \E S \in SUBSET Users : InitCalls(S)

NextLike ==
    \/ \E w \in Workers : \E u \in Users : LikeRead(w, u)
    \/ \E w \in Workers : LikeWrite(w)

SpecLike == InitLike /\ [][NextLike]_vars

TypeOK ==
    /\ clock \in 1..MaxTime
    /\ \A id \in JobIds :
         /\ jobs[id].Id = id
         /\ jobs[id].Status \in {jobStatusWaiting, jobStatusRunning, jobStatusPaused}
         /\ jobs[id].Version \in 0..(MaxInitVersion + MaxClaims)
         /\ jobs[id].NextTime \in Times
         /\ jobs[id].UpdatedTime \in 0..MaxTime
    /\ \A w \in Workers :
         /\ pc[w] \in {"idle", "read", "update", "claimed", "rescheduled", "released"}
         /\ fails[w] \in 0..MaxClaims
         /\ like.lpc[w] \in {"idle", "branch"}
         /\ like.uid[w] \in Users \cup {0}
         /\ like.liked[w] \in BOOLEAN
    /\ \A u \in Users :
         /\ like.userLike[u] \in BOOLEAN
         /\ like.likeStart[u] \in BOOLEAN
         /\ like.likeCnt[u] \in (0 - MaxLikes)..(MaxLikes + 1)
         /\ like.likeCalls[u] \in 0..MaxLikes

\* =============================================================== claims
\* the job that is Waiting and due in the initial store of SpecPreempt
DueAtStart == {id \in JobIds : start[id].Status = jobStatusWaiting}
Winners == {w \in Workers : ret[w].err = "nil"}
\* every worker's Preempt call has returned
AllReturned == \A w \in Workers : pc[w] \in {"idle", "claimed"} /\ ret[w].err # "none"

\* C1: with workers calling Preempt concurrently against a store holding a
\* single due job at version v, at most one call ever succeeds; once one has,
\* the stored row is Running at version v + 1; and when every call has
\* returned, exactly one returned the job and every other one NotFound or
\* Contention.
PreemptExactlyOne ==
    /\ Cardinality(Winners) <= 1
    /\ \A w \in Winners :
         /\ ret[w].job.Id \in DueAtStart
         /\ jobs[ret[w].job.Id].Status = jobStatusRunning
         /\ jobs[ret[w].job.Id].Version = start[ret[w].job.Id].Version + 1
    /\ AllReturned =>
         /\ Cardinality(Winners) = 1
         /\ \A w \in Workers \ Winners : ret[w].err \in {"NotFound", "Contention"}

\* C1 witness: every call has returned, one of them with the job (read at a
\* version above 0, now one higher) and another with NotFound
PreemptExactlyOneWitness ==
    /\ AllReturned
    /\ Winners # {}
    /\ \E w \in Workers : ret[w].err = "NotFound"
    /\ \E id \in DueAtStart : jobs[id].Version = 1 + start[id].Version /\ start[id].Version > 0

\* C2: in the normal cycle every job is held by at most one worker at a time.
AtMostOneOwner == \A id \in JobIds : Cardinality(Owners(id)) <= 1

\* C2 witness: a job claimed for the second time is held by one worker while
\* another worker, which read it as Waiting, is about to try its conditional
\* update on it
AtMostOneOwnerWitness ==
    \E id \in JobIds : \E w1, w2 \in Workers :
        /\ Owners(id) = {w1}
        /\ w2 # w1 /\ pc[w2] = "update" /\ j[w2].Id = id
        /\ jobs[id].Version >= 2

\* C3: a Release that arrives when the caller no longer holds the job is
\* rejected and changes no field of any row.
StaleReleaseRejected == [][\A w \in Workers : LateRelease(w) => jobs' = jobs]_vars

\* C4: an UpdateTime from a worker that no longer holds the job mutates no
\* field; an UpdateTime from the holder refreshes updated_at and increments
\* version by 1.
HeartbeatOwnerOnly ==
    [][\A w \in Workers :
          /\ LateHeartbeat(w) => jobs' = jobs
          /\ Heartbeat(w) =>
                /\ jobs'[j[w].Id].UpdatedTime = clock
                /\ jobs'[j[w].Id].Version = jobs[j[w].Id].Version + 1]_vars

\* C5: once MaxAttempts conditional updates of one Preempt call have affected 0
\* rows, the call is over (it has returned Contention): it is not retrying.
PreemptBoundedRetry ==
    \A w \in Workers : fails[w] >= MaxAttempts => pc[w] \notin {"read", "update"}

\* C6: a job that is Running is eventually Waiting again, also when its holder
\* has crashed.
RunningLeadsToWaiting ==
    \A id \in JobIds :
        (jobs[id].Status = jobStatusRunning) ~> (jobs[id].Status = jobStatusWaiting)

\* C7: no step takes a job from Paused to Running.
NoPausedToRunning ==
    [][\A id \in JobIds :
          jobs[id].Status = jobStatusPaused => jobs'[id].Status # jobStatusRunning]_vars

\* C8: no job is left Running with its next_time already advanced (the job was
\* claimed with next_time < now, and is not due any more) by a worker that is
\* gone, so that nobody is left to release it.
ReleaseAtomic ==
    \A id \in JobIds : \A w \in Workers :
        ~ /\ ~alive[w] /\ pc[w] = "rescheduled" /\ j[w].Id = id
          /\ jobs[id].Status = jobStatusRunning
          /\ jobs[id].NextTime >= clock
          /\ Owners(id) = {}

\* C9: Release increments the version of the released row by exactly 1, so a
\* job claimed at version v and released is Waiting at version v + 2.
ReleaseIncrementsVersion ==
    [][\A w \in Workers :
          Release(w) =>
              /\ jobs'[j[w].Id].Status = jobStatusWaiting
              /\ jobs'[j[w].Id].Version = jobs[j[w].Id].Version + 1
              /\ jobs'[j[w].Id].Version = j[w].Version + 2]_vars

\* C10: the job a successful Preempt returns is the stored row right after the
\* conditional update: Running, at the version read plus 1.
PreemptReturnsClaimed ==
    \A w \in Workers :
        (pc[w] = "claimed" /\ ret[w].err = "nil") =>
            /\ ret[w].job.Status = jobStatusRunning
            /\ ret[w].job.Version = jobs[ret[w].job.Id].Version

\* C11: Preempt claims a row only when it is Waiting with next_time strictly
\* earlier than the time of the call: a conditional update that is about to
\* affect the row finds it Waiting with next_time < now, and a job that is held
\* and not yet rescheduled has next_time < the clock (a Waiting row with
\* next_time = now is not claimed).
ClaimOnlyDue ==
    \A w \in Workers :
        /\ (pc[w] = "update" /\ PreemptWhere(jobs[j[w].Id], j[w])) =>
               /\ jobs[j[w].Id].Status = jobStatusWaiting
               /\ jobs[j[w].Id].NextTime < now[w]
        /\ pc[w] = "claimed" =>
               /\ jobs[j[w].Id].Status = jobStatusRunning
               /\ jobs[j[w].Id].NextTime < clock

\* C11 witness: a Preempt called at time 2 has claimed a job that was due,
\* passing over a row with a smaller id that is Waiting with next_time = 2 = now
ClaimOnlyDueWitness ==
    \E w \in Workers : \E id, o \in JobIds :
        /\ pc[w] = "claimed" /\ j[w].Id = id
        /\ jobs[id].UpdatedTime = 2 /\ clock = 2
        /\ o < id /\ jobs[o].Status = jobStatusWaiting /\ jobs[o].NextTime = clock

\* C12: the candidate a Preempt iteration selects is, among the rows that are
\* Waiting and due, the one with the smallest next_time, ties broken by the
\* smallest id.
EarliestDueFirst ==
    [][\A w \in Workers :
          (PreemptRead(w) /\ pc'[w] = "update") =>
              \A o \in JobIds :
                  (jobs[o].Status = jobStatusWaiting /\ jobs[o].NextTime < clock) =>
                      \/ jobs[j'[w].Id].NextTime < jobs[o].NextTime
                      \/ /\ jobs[j'[w].Id].NextTime = jobs[o].NextTime
                         /\ j'[w].Id <= o]_vars

\* no row is both Waiting and due
NoneDue ==
    \A id \in JobIds : ~(jobs[id].Status = jobStatusWaiting /\ jobs[id].NextTime < clock)

\* C13: when no job is both Waiting and due, a Preempt iteration returns the
\* not-found error and writes nothing: every row is as it was.
NotFoundWritesNothing ==
    [][\A w \in Workers :
          (PreemptRead(w) /\ NoneDue) =>
              /\ ret'[w].err = "NotFound"
              /\ pc'[w] = "idle"
              /\ jobs' = jobs]_vars

\* C13 witness: a call has returned NotFound while the one job that was due is
\* Running, claimed by another worker, and every other row is as it started
NotFoundWritesNothingWitness ==
    \E w \in Workers :
        /\ pc[w] = "idle" /\ ret[w].err = "NotFound"
        /\ NoneDue
        /\ \E o \in Workers \ {w} : pc[o] = "claimed"
        /\ \A id \in JobIds : start[id].Status # jobStatusWaiting => jobs[id] = start[id]

\* C14: next_time never regresses: every UpdateNextTime stores a value strictly
\* greater than the time at which it is written, and no step makes a row's
\* next_time smaller.
NextTimeNeverRegresses ==
    [][/\ \A w \in Workers :
            Reschedule(w) => jobs'[j[w].Id].NextTime > clock
       /\ \A id \in JobIds : jobs'[id].NextTime >= jobs[id].NextTime]_vars

\* C15: a row's version never decreases and changes only through a successful
\* Preempt, by exactly 1 each time: a step changes the version of a row only if
\* it is a conditional update that claims that row, which adds 1 to it; so the
\* version is the initial one plus the number of successful claims.
VersionCountsClaims ==
    [][/\ \A id \in JobIds :
            jobs'[id].Version # jobs[id].Version =>
                \E w \in Workers :
                    /\ pc[w] = "update" /\ pc'[w] = "claimed" /\ j[w].Id = id
                    /\ jobs'[id].Version = jobs[id].Version + 1
       /\ \A w \in Workers :
            (pc[w] = "update" /\ pc'[w] = "claimed") =>
                jobs'[j[w].Id].Version = jobs[j[w].Id].Version + 1]_vars

\* C15 witness: a job claimed and released twice, heartbeats and reschedules
\* included, is Waiting at its initial version plus 2
VersionCountsClaimsWitness ==
    \E id \in JobIds :
        /\ jobs[id].Status = jobStatusWaiting /\ Owners(id) = {}
        /\ jobs[id].Version = start[id].Version + 2
        /\ jobs[id].UpdatedTime = 2

\* the fields of row id other than those of F keep their values in this step
OnlyFields(id, F) ==
    /\ jobs'[id].Id = jobs[id].Id
    /\ "Status" \in F \/ jobs'[id].Status = jobs[id].Status
    /\ "Version" \in F \/ jobs'[id].Version = jobs[id].Version
    /\ "NextTime" \in F \/ jobs'[id].NextTime = jobs[id].NextTime
    /\ "UpdatedTime" \in F \/ jobs'[id].UpdatedTime = jobs[id].UpdatedTime
OtherRowsKept(id) == \A o \in JobIds \ {id} : jobs'[o] = jobs[o]

\* C16: each operation touches only the row it names and only its own fields:
\* a step that changes the table is one worker's successful Preempt
\* (status, version and updated_at change, next_time is kept), UpdateTime
\* (only updated_at), UpdateNextTime (only next_time and updated_at) or
\* Release (only status and updated_at) on the row of its job, and every
\* other row is unchanged; a read, a not-found return and a failed
\* conditional update change no row.
OwnRowOwnFields ==
    [][(jobs' # jobs) =>
          \E w \in Workers :
              /\ pc[w] \in {"update", "claimed", "rescheduled"}
              /\ \/ /\ pc[w] = "update" /\ pc'[w] = "claimed"
                    /\ OnlyFields(j[w].Id, {"Status", "Version", "UpdatedTime"})
                 \/ /\ pc[w] = "claimed" /\ pc' = pc
                    /\ OnlyFields(j[w].Id, {"UpdatedTime"})
                 \/ /\ pc[w] = "claimed" /\ pc'[w] = "rescheduled"
                    /\ OnlyFields(j[w].Id, {"NextTime", "UpdatedTime"})
                 \/ /\ pc[w] = "rescheduled" /\ pc'[w] = "idle"
                    /\ OnlyFields(j[w].Id, {"Status", "UpdatedTime"})
              /\ OtherRowsKept(j[w].Id)]_vars

\* C16 witness: two workers hold different jobs; one has sent a heartbeat for
\* its job and the other has rescheduled its own, and each row shows only its
\* own worker's writes
OwnRowOwnFieldsWitness ==
    \E w, o \in Workers : \E a, b \in JobIds :
        /\ a # b
        /\ pc[w] = "rescheduled" /\ j[w].Id = a
        /\ pc[o] = "claimed" /\ j[o].Id = b
        /\ jobs[a].NextTime = 2 /\ jobs[a].UpdatedTime = 1
        /\ jobs[b].NextTime = start[b].NextTime /\ jobs[b].UpdatedTime = 2

\* C17: Like is a toggle under any interleaving of one user's Like calls: the
\* like count the user contributes stays 0 or 1, and once two Like calls of
\* the user have returned the user's like and count are what they were before.
LikeIsToggle ==
    \A u \in Users :
        /\ like.likeCnt[u] \in {0, 1}
        /\ (like.likeCalls[u] = 2 /\ InFlight(u) = {}) =>
               /\ like.userLike[u] = like.likeStart[u]
               /\ like.likeCnt[u] = CntOf(like.likeStart[u])
====
